---- MODULE Spec2Model ----
(***************************************************************************)
(* Model of the multi-timeline backend (Code.gs): the sheet "TimelineData" *)
(* as a grid of cells, getSheet (schema repair and migration), the grouped *)
(* read getEventsGrouped, and the mutations addEvent, updateEvent and      *)
(* deleteEvent.                                                            *)
(*                                                                         *)
(* JavaScript strings are sequences of one-character strings, so that      *)
(* trim, split, parseInt, String() and the default sort order are computed *)
(* as the code computes them.  A JavaScript value is a record              *)
(* [t, n, s]: t is the type tag, n the number (0 unless t = "num"), s the  *)
(* characters (<<>> unless t = "str").                                     *)
(***************************************************************************)
EXTENDS Integers, Sequences, FiniteSets, TLC

VARIABLES sheet,    \* the grid of the sheet: rows of cells, row 1 the header
          pre,      \* the grid as it was when the operation was called
          last      \* the call that has returned and is not yet consumed:
                    \* its name, argument and result

vars == <<sheet, pre, last>>

(***************************************************************************)
(* Bounds.                                                                 *)
(***************************************************************************)
MaxRows == 2        \* addEvent is offered while the sheet has fewer data rows

(***************************************************************************)
(* JavaScript values.                                                      *)
(***************************************************************************)
Num(n) == [t |-> "num", n |-> n, s |-> <<>>]
Str(s) == [t |-> "str", n |-> 0, s |-> s]
Undef  == [t |-> "undef", n |-> 0, s |-> <<>>]
NaN    == [t |-> "nan", n |-> 0, s |-> <<>>]
Blank  == Str(<<>>)          \* getValues() gives "" for an empty cell

\* JavaScript truthiness: 0, NaN, "" and undefined are falsy
Truthy(v) ==
  CASE v.t = "num" -> v.n # 0
    [] v.t = "str" -> v.s # <<>>
    [] OTHER -> FALSE

\* a || b
Or(a, b) == IF Truthy(a) THEN a ELSE b

\* a ?? b
Nullish(a, b) == IF a.t = "undef" THEN b ELSE a

(***************************************************************************)
(* Characters: the code units in ascending order, case mapping, digits.    *)
(***************************************************************************)
CharOrder ==
  <<" ", "-", "0", "1", "2", "3", "4", "5", "6", "7", "8", "9",
    "A", "B", "C", "D", "E", "F", "G", "H", "I", "J", "K", "L", "M",
    "N", "O", "P", "Q", "R", "S", "T", "U", "V", "W", "X", "Y", "Z",
    "a", "b", "c", "d", "e", "f", "g", "h", "i", "j", "k", "l", "m",
    "n", "o", "p", "q", "r", "s", "t", "u", "v", "w", "x", "y", "z">>

CharCode ==
  [c \in {CharOrder[i] : i \in 1..Len(CharOrder)} |->
     CHOOSE i \in 1..Len(CharOrder) : CharOrder[i] = c]

Ord(c) == CharCode[c]

IsSpace(c) == c = " "
IsDigit(c) == Ord(c) \in 3..12
DigitVal(c) == Ord(c) - 3
DigitChar(d) == CharOrder[d + 3]

\* String.prototype.toUpperCase on one character
ToUpperCase(c) == IF Ord(c) \in 39..64 THEN CharOrder[Ord(c) - 26] ELSE c

\* the order Array.prototype.sort() puts strings in: by code unit, a proper
\* prefix first
RECURSIVE StrLess(_, _)
StrLess(a, b) ==
  IF b = <<>> THEN FALSE
  ELSE IF a = <<>> THEN TRUE
  ELSE IF Head(a) # Head(b) THEN Ord(Head(a)) < Ord(Head(b))
  ELSE StrLess(Tail(a), Tail(b))

(***************************************************************************)
(* String conversions.                                                     *)
(***************************************************************************)
RECURSIVE Digits(_)
Digits(n) == IF n < 10 THEN <<DigitChar(n)>>
             ELSE Digits(n \div 10) \o <<DigitChar(n % 10)>>

\* String(v) and v.toString()
ToStr(v) ==
  CASE v.t = "num" -> IF v.n < 0 THEN <<"-">> \o Digits(-v.n) ELSE Digits(v.n)
    [] v.t = "str" -> v.s
    [] v.t = "nan" -> <<"N", "a", "N">>
    [] OTHER -> <<"u", "n", "d", "e", "f", "i", "n", "e", "d">>

RECURSIVE TrimStart(_)
TrimStart(s) == IF s # <<>> /\ IsSpace(Head(s)) THEN TrimStart(Tail(s)) ELSE s

RECURSIVE TrimEnd(_)
TrimEnd(s) == IF s # <<>> /\ IsSpace(s[Len(s)])
              THEN TrimEnd(SubSeq(s, 1, Len(s) - 1)) ELSE s

\* String.prototype.trim
Trim(s) == TrimEnd(TrimStart(s))

\* the value of the longest prefix of s made of digits, and whether there is one
RECURSIVE DigitPrefix(_, _, _)
DigitPrefix(s, acc, any) ==
  IF s # <<>> /\ IsDigit(Head(s))
  THEN DigitPrefix(Tail(s), 10 * acc + DigitVal(Head(s)), TRUE)
  ELSE [any |-> any, n |-> acc, rest |-> s]

\* parseInt(v, 10): String(v), leading white space skipped, an optional sign,
\* then the leading digits; NaN when there is no digit
ParseInt(v) ==
  LET s == TrimStart(ToStr(v))
      neg == s # <<>> /\ Head(s) = "-"
      d == DigitPrefix(IF neg THEN Tail(s) ELSE s, 0, FALSE)
  IN IF d.any THEN Num(IF neg THEN -d.n ELSE d.n) ELSE NaN

\* ToNumber, as the subtraction in the sort comparator applies it: a string
\* is a number when, trimmed, it is empty or an optionally signed run of digits
ToNumber(v) ==
  CASE v.t = "num" -> v
    [] v.t = "str" ->
         LET s == Trim(v.s)
             neg == s # <<>> /\ Head(s) = "-"
             d == DigitPrefix(IF neg THEN Tail(s) ELSE s, 0, FALSE)
         IN IF s = <<>> THEN Num(0)
            ELSE IF d.any /\ d.rest = <<>> THEN Num(IF neg THEN -d.n ELSE d.n)
            ELSE NaN
    [] OTHER -> NaN

Abs(n) == IF n < 0 THEN -n ELSE n

(***************************************************************************)
(* Program constants.                                                      *)
(***************************************************************************)
sTimelineName == <<"T", "i", "m", "e", "l", "i", "n", "e", "N", "a", "m", "e">>
sEventName    == <<"E", "v", "e", "n", "t", "N", "a", "m", "e">>
sYear         == <<"Y", "e", "a", "r">>
sEra          == <<"E", "r", "a">>
sNumericYear  == <<"N", "u", "m", "e", "r", "i", "c", "Y", "e", "a", "r">>
sAbbreviation == <<"A", "b", "b", "r", "e", "v", "i", "a", "t", "i", "o", "n">>
sDescription  == <<"D", "e", "s", "c", "r", "i", "p", "t", "i", "o", "n">>

REQUIRED_HEADERS ==
  <<sTimelineName, sEventName, sYear, sEra, sNumericYear, sAbbreviation,
    sDescription>>

OLD_HEADERS ==
  <<sEventName, sYear, sEra, sNumericYear, sAbbreviation, sDescription>>

Timeline1 == <<"T", "i", "m", "e", "l", "i", "n", "e", " ", "1">>
Untitled  == <<"U", "n", "t", "i", "t", "l", "e", "d">>
BC == <<"B", "C">>
CE == <<"C", "E">>

StrCells(labels) == [i \in 1..Len(labels) |-> Str(labels[i])]

(***************************************************************************)
(* The sheet: a grid of cells.  Only cells with content count; the grid is *)
(* kept as the rectangle from A1 to (last row, last column) with content.  *)
(***************************************************************************)
Max(S) == CHOOSE m \in S : \A x \in S : x <= m

Cell(g, r, c) ==
  IF r \in 1..Len(g) /\ c \in 1..Len(g[r]) THEN g[r][c] ELSE Blank

\* Sheet.getLastRow
getLastRow(g) ==
  Max({0} \cup {r \in 1..Len(g) : \E c \in 1..Len(g[r]) : g[r][c] # Blank})

\* Sheet.getLastColumn
getLastColumn(g) ==
  Max({0} \cup UNION {{c \in 1..Len(g[r]) : g[r][c] # Blank} : r \in 1..Len(g)})

Rect(g) ==
  LET lastRow == getLastRow(g)
      lastCol == getLastColumn(g)
  IN [r \in 1..lastRow |-> [c \in 1..lastCol |-> Cell(g, r, c)]]

\* Range.getValues of getRange(r, 1, n, w)
getValues(g, r, n, w) ==
  [i \in 1..n |-> [c \in 1..w |-> Cell(g, r + i - 1, c)]]

Width(g) == IF g = <<>> THEN 0 ELSE Len(g[1])

Larger(a, b) == IF a > b THEN a ELSE b

\* getRange(r, 1, 1, Len(vals)).setValues([vals])
setValues(g, r, vals) ==
  Rect([i \in 1..Larger(Len(g), r) |->
         [c \in 1..Larger(Width(g), Len(vals)) |->
           IF i = r /\ c <= Len(vals) THEN vals[c] ELSE Cell(g, i, c)]])

\* getRange(r, c, n, 1).setValue(v)
setValue(g, r, c, n, v) ==
  Rect([i \in 1..Larger(Len(g), r + n - 1) |->
         [k \in 1..Larger(Width(g), c) |->
           IF i \in r..(r + n - 1) /\ k = c THEN v ELSE Cell(g, i, k)]])

\* Sheet.insertColumnBefore(1)
insertColumnBefore(g) == [r \in 1..Len(g) |-> <<Blank>> \o g[r]]

\* appendRow that writes on the last row with content
appendRowOver(g, vals) == setValues(g, getLastRow(g), vals)

\* Sheet.appendRow: the row after the last row with content
appendRow(g, vals) == setValues(g, getLastRow(g) + 1, vals)

\* deleteRow that clears the row and leaves it in place
deleteRowClear(g, r) ==
  Rect([i \in 1..Len(g) |-> IF i = r THEN <<>> ELSE g[i]])

\* Sheet.deleteRow: the rows below move up
deleteRow(g, r) ==
  Rect([i \in 1..(Len(g) - 1) |-> IF i < r THEN g[i] ELSE g[i + 1]])

\* the data rows, as every operation reads them:
\* getRange(2, 1, lastRow - 1, REQUIRED_HEADERS.length).getValues()
DataRows(g) ==
  IF getLastRow(g) < 2 THEN <<>>
  ELSE getValues(g, 2, getLastRow(g) - 1, Len(REQUIRED_HEADERS))

(***************************************************************************)
(* getSheet: the header is written on an empty sheet, the old six-column   *)
(* layout is migrated, any other header that differs is rewritten.         *)
(***************************************************************************)
\* normalized = arr.map(h => (h || "").toString().trim())
normalized(arr) == [i \in 1..Len(arr) |-> Trim(ToStr(Or(arr[i], Blank)))]

\* h: the first seven cells of row 1, normalized; the range read is
\* getRange(1, 1, 1, max(lastCol, 7))
Headers(g) ==
  normalized(SubSeq(
    getValues(g, 1, 1, Larger(getLastColumn(g), Len(REQUIRED_HEADERS)))[1],
    1, Len(REQUIRED_HEADERS)))

isOld(h) == \A i \in 1..Len(OLD_HEADERS) : h[i] = OLD_HEADERS[i]

needRewrite(h, g) ==
  \/ \E i \in 1..Len(REQUIRED_HEADERS) : REQUIRED_HEADERS[i] # h[i]
  \/ getLastColumn(g) < Len(REQUIRED_HEADERS)

\* Migrate with the backfill one row short
MigrateShort(g) ==
  LET g1 == insertColumnBefore(g)
      g2 == setValues(g1, 1, StrCells(REQUIRED_HEADERS))
      dataRows == getLastRow(g2) - 1
  IN IF dataRows > 1 THEN setValue(g2, 2, 1, dataRows - 1, Str(Timeline1))
     ELSE g2

\* Migrate without the write of the new header row
MigrateNoHeader(g) ==
  LET g1 == insertColumnBefore(g)
      dataRows == getLastRow(g1) - 1
  IN IF dataRows > 0 THEN setValue(g1, 2, 1, dataRows, Str(Timeline1)) ELSE g1

\* the migration branch of getSheet
Migrate(g) ==
  LET g1 == insertColumnBefore(g)
      g2 == setValues(g1, 1, StrCells(REQUIRED_HEADERS))
      dataRows == getLastRow(g2) - 1
  IN IF dataRows > 0 THEN setValue(g2, 2, 1, dataRows, Str(Timeline1)) ELSE g2

getSheet(g) ==
  LET h == Headers(g)
  IN IF getLastRow(g) = 0 THEN setValues(g, 1, StrCells(REQUIRED_HEADERS))
     ELSE IF isOld(h) THEN Migrate(g)
     ELSE IF needRewrite(h, g) THEN setValues(g, 1, StrCells(REQUIRED_HEADERS))
     ELSE g

(***************************************************************************)
(* The derived fields.                                                     *)
(***************************************************************************)
\* String.prototype.split(/\s+/): cur is the token being read, acc the tokens
RECURSIVE Split(_, _, _)
Split(cur, rest, acc) ==
  IF rest = <<>> THEN Append(acc, cur)
  ELSE IF IsSpace(Head(rest)) THEN Split(<<>>, TrimStart(rest), Append(acc, cur))
  ELSE Split(Append(cur, Head(rest)), Tail(rest), acc)

RECURSIVE Join(_)
Join(ws) == IF ws = <<>> THEN <<>> ELSE Head(ws) \o Join(Tail(ws))

makeAbbreviation(name) ==
  IF ~Truthy(name) THEN Blank
  ELSE LET words == Split(<<>>, Trim(ToStr(name)), <<>>)
       IN Str(Join([i \in 1..Len(words) |->
                     IF words[i] # <<>> THEN <<ToUpperCase(Head(words[i]))>>
                     ELSE <<>>]))

computeNumericYear(year, era) ==
  LET y == ParseInt(year)
  IN IF y.t = "nan" THEN Num(0)
     ELSE IF era = Str(BC) THEN Num(-Abs(y.n)) ELSE Num(Abs(y.n))

(***************************************************************************)
(* getEventsGrouped.                                                       *)
(***************************************************************************)
\* the body of data.forEach: one row decoded into an event
Decode(row) ==
  LET name == Or(row[2], Blank)
      year == row[3]
      era == Or(row[4], Blank)
  IN [timelineName |-> Str(ToStr(Or(row[1], Str(Untitled)))),
      name |-> name,
      year |-> year,
      era |-> era,
      numericYear |-> IF row[5] # Blank THEN row[5]
                      ELSE computeNumericYear(year, era),
      abbreviation |-> Or(row[6], makeAbbreviation(name)),
      description |-> Or(row[7], Blank)]

\* the comparator (a, b) => (a.numericYear || 0) - (b.numericYear || 0), as
\* sort reads it: its sign, NaN read as 0
SortKey(ev) == ToNumber(Or(ev.numericYear, Num(0)))

Compare(a, b) ==
  LET x == SortKey(a)
      y == SortKey(b)
  IN IF x.t = "nan" \/ y.t = "nan" THEN 0
     ELSE IF x.n < y.n THEN -1
     ELSE IF x.n > y.n THEN 1
     ELSE 0

\* a consistent comparator, as Array.prototype.sort requires: the order it
\* induces is transitive
Consistent(evs) ==
  \A i, j, k \in 1..Len(evs) :
    /\ Compare(evs[i], evs[j]) = 0 /\ Compare(evs[j], evs[k]) = 0
         => Compare(evs[i], evs[k]) = 0
    /\ Compare(evs[i], evs[j]) < 0 /\ Compare(evs[j], evs[k]) < 0
         => Compare(evs[i], evs[k]) < 0

\* ev put into a sorted list after every element that does not compare greater
RECURSIVE Insert(_, _)
Insert(ev, sorted) ==
  IF sorted = <<>> THEN <<ev>>
  ELSE IF Compare(Head(sorted), ev) > 0 THEN <<ev>> \o sorted
  ELSE <<Head(sorted)>> \o Insert(ev, Tail(sorted))

\* the stable sort of a list under a consistent comparator
RECURSIVE StableSort(_)
StableSort(evs) ==
  IF evs = <<>> THEN <<>>
  ELSE Insert(evs[Len(evs)], StableSort(SubSeq(evs, 1, Len(evs) - 1)))

Perms(n) == {p \in [1..n -> 1..n] : \A i, j \in 1..n : p[i] = p[j] => i = j}

\* evs in the order that seed puts its first Len(evs) entries in
Permuted(evs, seed) ==
  LET rank(i) == Cardinality({j \in 1..Len(evs) : seed[j] <= seed[i]})
  IN [k \in 1..Len(evs) |-> evs[CHOOSE i \in 1..Len(evs) : rank(i) = k]]

\* Array.prototype.sort with the comparator: stable under a consistent
\* comparator, otherwise an order the engine defines (here: the one of seed)
SortEvents(evs, seed) ==
  IF Consistent(evs) THEN StableSort(evs) ELSE Permuted(evs, seed)

\* Object.keys(map).sort(): the keys in ascending order
RECURSIVE SortStrings(_)
SortStrings(S) ==
  IF S = {} THEN <<>>
  ELSE LET m == CHOOSE x \in S : \A y \in S : y = x \/ StrLess(x, y)
       IN <<m>> \o SortStrings(S \ {m})

\* map[name]: the events of one timeline, in the order of the rows
RECURSIVE GroupOf(_, _)
GroupOf(evs, name) ==
  IF evs = <<>> THEN <<>>
  ELSE (IF Head(evs).timelineName.s = name THEN <<Head(evs)>> ELSE <<>>)
         \o GroupOf(Tail(evs), name)

\* getEventsGrouped on the sheet that getSheet returned
getEventsGrouped(g, seed) ==
  LET data == DataRows(g)
      evs == [i \in 1..Len(data) |-> Decode(data[i])]
      keys == SortStrings({evs[i].timelineName.s : i \in 1..Len(evs)})
      timelines == [k \in 1..Len(keys) |->
                     [name |-> keys[k],
                      events |-> SortEvents(GroupOf(evs, keys[k]), seed)]]
  IN [timelines |-> timelines,
      timelineNames |-> [k \in 1..Len(timelines) |-> timelines[k].name]]

(***************************************************************************)
(* The mutations.  Each gives the sheet it leaves and the result it        *)
(* returns; message is the text of the result (the two names that the      *)
(* message of a successful add quotes are left out).                       *)
(***************************************************************************)
Result(ok, msg) == [success |-> ok, message |-> msg]

\* findIndex that gives the last row the key matches
findLastIndex(data, o) ==
  LET Match(row) == /\ ToStr(row[1]) = ToStr(o.timelineName)
                    /\ ToStr(row[2]) = ToStr(o.name)
                    /\ ToStr(row[3]) = ToStr(o.year)
                    /\ ToStr(row[4]) = ToStr(o.era)
      hits == {i \in 1..Len(data) : Match(data[i])}
  IN IF hits = {} THEN 0 ELSE CHOOSE i \in hits : \A j \in hits : i >= j

\* findIndex that compares the cells with the key without String()
findIndexStrict(data, o) ==
  LET Match(row) == /\ row[1] = o.timelineName
                    /\ row[2] = o.name
                    /\ row[3] = o.year
                    /\ row[4] = o.era
      hits == {i \in 1..Len(data) : Match(data[i])}
  IN IF hits = {} THEN 0 ELSE CHOOSE i \in hits : \A j \in hits : i <= j

\* the index in data of the first row that the composite key o matches:
\* data.findIndex(row => String(row[k]) === String(o.field) ...), 0 for -1
findIndex(data, o) ==
  LET Match(row) == /\ ToStr(row[1]) = ToStr(o.timelineName)
                    /\ ToStr(row[2]) = ToStr(o.name)
                    /\ ToStr(row[3]) = ToStr(o.year)
                    /\ ToStr(row[4]) = ToStr(o.era)
      hits == {i \in 1..Len(data) : Match(data[i])}
  IN IF hits = {} THEN 0 ELSE CHOOSE i \in hits : \A j \in hits : i <= j

\* the row that addEvent appends
NewRow(e) ==
  LET timelineName == Str(ToStr(Or(e.timelineName, Str(Timeline1))))
      name == Str(Trim(ToStr(Or(e.name, Blank))))
      yearNum == ParseInt(e.year)
      era == Str(ToStr(Or(e.era, Str(CE))))
      description == Str(ToStr(Or(e.description, Blank)))
  IN <<timelineName, name, yearNum, era, computeNumericYear(yearNum, era),
       makeAbbreviation(name), description>>

addEvent(g, e) ==
  LET row == NewRow(e)
  IN IF ~e.given THEN [sheet |-> g, res |-> Result(FALSE, "No event data.")]
     ELSE IF ~Truthy(row[2])
       THEN [sheet |-> g, res |-> Result(FALSE, "Missing event name.")]
     ELSE IF row[3].t = "nan"
       THEN [sheet |-> g, res |-> Result(FALSE, "Year must be a number.")]
     ELSE [sheet |-> appendRow(getSheet(g), row),
           res |-> Result(TRUE, "Event added.")]

\* UpdatedRow that keeps the NumericYear cell of the matched row
UpdatedRowStaleNumeric(e, old) ==
  LET newTimeline == Or(Or(e.timelineName, old[1]), Str(Timeline1))
      newName == Str(ToStr(Or(Or(e.name, old[2]), Blank)))
      newYearNum == ParseInt(Nullish(e.year, old[3]))
      newEra == Str(ToStr(Or(Or(e.era, old[4]), Str(CE))))
      newDesc == Str(ToStr(Nullish(Nullish(e.description, old[7]), Blank)))
  IN <<newTimeline, newName, newYearNum, newEra, old[5],
       makeAbbreviation(newName), newDesc>>

\* the row that updateEvent writes over the matched row old
UpdatedRow(e, old) ==
  LET newTimeline == Or(Or(e.timelineName, old[1]), Str(Timeline1))
      newName == Str(ToStr(Or(Or(e.name, old[2]), Blank)))
      newYearNum == ParseInt(Nullish(e.year, old[3]))
      newEra == Str(ToStr(Or(Or(e.era, old[4]), Str(CE))))
      newDesc == Str(ToStr(Nullish(Nullish(e.description, old[7]), Blank)))
  IN <<newTimeline, newName, newYearNum, newEra,
       computeNumericYear(newYearNum, newEra), makeAbbreviation(newName),
       newDesc>>

\* updateEvent that writes the row before it looks at the year
updateEventWriteFirst(g, e) ==
  IF ~e.given \/ ~e.hasOriginal
    THEN [sheet |-> g, res |-> Result(FALSE, "Missing original identifiers.")]
  ELSE
    LET s == getSheet(g)
        data == DataRows(s)
        matchRowIndex == findIndex(data, e.original)
    IN IF getLastRow(s) < 2
         THEN [sheet |-> s, res |-> Result(FALSE, "No events to update.")]
       ELSE IF matchRowIndex = 0
         THEN [sheet |-> s, res |-> Result(FALSE, "Event not found for update.")]
       ELSE LET row == UpdatedRow(e, data[matchRowIndex])
            IN IF row[3].t = "nan"
                 THEN [sheet |-> setValues(s, matchRowIndex + 1, row),
                       res |-> Result(FALSE, "Year must be a number.")]
               ELSE [sheet |-> setValues(s, matchRowIndex + 1, row),
                     res |-> Result(TRUE, "Event updated successfully.")]

updateEvent(g, e) ==
  IF ~e.given \/ ~e.hasOriginal
    THEN [sheet |-> g, res |-> Result(FALSE, "Missing original identifiers.")]
  ELSE
    LET s == getSheet(g)
        data == DataRows(s)
        matchRowIndex == findIndex(data, e.original)
    IN IF getLastRow(s) < 2
         THEN [sheet |-> s, res |-> Result(FALSE, "No events to update.")]
       ELSE IF matchRowIndex = 0
         THEN [sheet |-> s, res |-> Result(FALSE, "Event not found for update.")]
       ELSE LET row == UpdatedRow(e, data[matchRowIndex])
            IN IF row[3].t = "nan"
                 THEN [sheet |-> s,
                       res |-> Result(FALSE, "Year must be a number.")]
               ELSE [sheet |-> setValues(s, matchRowIndex + 1, row),
                     res |-> Result(TRUE, "Event updated successfully.")]

deleteEvent(g, params) ==
  IF ~params.given
    THEN [sheet |-> g, res |-> Result(FALSE, "No delete parameters.")]
  ELSE
    LET s == getSheet(g)
        idx == findIndex(DataRows(s), params)
    IN IF getLastRow(s) < 2
         THEN [sheet |-> s, res |-> Result(FALSE, "No events to delete.")]
       ELSE IF idx = 0
         THEN [sheet |-> s, res |-> Result(FALSE, "Event not found.")]
       ELSE [sheet |-> deleteRow(s, idx + 1),
             res |-> Result(TRUE, "Event deleted.")]

(***************************************************************************)
(* The arguments the operations are called with.                           *)
(***************************************************************************)
Event(tl, nm, yr, er, ds) ==
  [given |-> TRUE, timelineName |-> tl, name |-> nm, year |-> yr, era |-> er,
   description |-> ds]

NoEvent == [Event(Undef, Undef, Undef, Undef, Undef) EXCEPT !.given = FALSE]

Key(tl, nm, yr, er) ==
  [given |-> TRUE, timelineName |-> tl, name |-> nm, year |-> yr, era |-> er]

NoKey == [Key(Undef, Undef, Undef, Undef) EXCEPT !.given = FALSE]

Update(o, tl, nm, yr, er, ds) ==
  [given |-> TRUE, hasOriginal |-> o.given, original |-> o, timelineName |-> tl,
   name |-> nm, year |-> yr, era |-> er, description |-> ds]

NoUpdate == [Update(NoKey, Undef, Undef, Undef, Undef, Undef)
               EXCEPT !.given = FALSE]

sA == <<"a">>
sUpperA == <<"A">>
sSpaceA == <<" ", "a">>
sSpace == <<" ">>
sB == <<"B">>
sD == <<"d">>
sX == <<"x">>
sMinus2 == <<"-", "2">>

\* a valid event, the same with a timeline, an era and a description (the
\* name padded and not), and with the name or the year missing or unusable
AddArgs ==
  { NoEvent,
    Event(Undef, Str(sSpaceA), Str(sMinus2), Undef, Undef),
    Event(Str(sB), Str(sSpaceA), Str(sMinus2), Str(BC), Str(sD)),
    Event(Str(sB), Str(sA), Str(sMinus2), Str(BC), Str(sD)),
    Event(Undef, Str(sSpace), Str(sMinus2), Undef, Undef),
    Event(Undef, Undef, Str(sMinus2), Undef, Undef),
    Event(Undef, Str(sSpaceA), Str(sX), Undef, Undef),
    Event(Undef, Str(sSpaceA), Undef, Undef, Undef) }

\* the new values of an update: none, or one field
NewValues ==
  { <<Undef, Undef, Undef, Undef, Undef>>,
    <<Undef, Undef, Num(1), Undef, Undef>>,
    <<Undef, Undef, Str(sX), Undef, Undef>>,
    <<Undef, Str(sSpace), Undef, Undef, Undef>>,
    <<Undef, Undef, Undef, Str(BC), Undef>>,
    <<Undef, Undef, Undef, Undef, Str(sD)>> }

\* the composite keys a caller holds for the sheet s: the key cells of a data
\* row, and a key of no row
KeysOf(s) ==
  LET data == DataRows(s)
  IN {Key(data[i][1], data[i][2], data[i][3], data[i][4]) : i \in 1..Len(data)}
       \cup {Key(Str(sX), Str(sX), Num(0), Str(CE))}

UpdateArgs(s) ==
  {NoUpdate, Update(NoKey, Undef, Undef, Undef, Undef, Undef)} \cup
  {Update(o, v[1], v[2], v[3], v[4], v[5]) : o \in KeysOf(s), v \in NewValues}

DeleteArgs(s) == {NoKey} \cup KeysOf(s)

(***************************************************************************)
(* The sheets the program may find: empty, in the old layout, with a       *)
(* header that differs, and in the current layout with rows edited by hand.*)
(***************************************************************************)
OldRowA == <<Str(sA), Num(-2), Str(CE), Num(2), Str(sUpperA), Blank>>
OldRowB == <<Str(sA), Num(1), Str(BC), Num(-1), Str(sUpperA), Str(sD)>>

RowA  == <<Str(Timeline1)>> \o OldRowA
RowA2 == <<Str(Timeline1)>> \o OldRowB
RowB  == <<Str(sB)>> \o OldRowB
RowB2 == <<Str(sB), Str(sA), Num(-2), Str(BC), Num(-2), Str(sUpperA), Str(sD)>>

InitSheets ==
  { <<>>,
    \* the old layout: no row, two rows, a label padded with a space
    <<StrCells(OLD_HEADERS)>>,
    <<StrCells(OLD_HEADERS), OldRowA, OldRowB>>,
    <<StrCells(<<sSpace \o sEventName>> \o Tail(OLD_HEADERS)), OldRowB>>,
    \* a header that differs: in one label, and narrower than the old layout
    <<StrCells(<<sX>> \o Tail(REQUIRED_HEADERS)), RowB>>,
    <<StrCells(Tail(OLD_HEADERS))>>,
    \* the current layout, two timelines, rows not in order
    <<StrCells(REQUIRED_HEADERS), RowA, RowB, RowB2>>,
    \* cells left empty
    <<StrCells(REQUIRED_HEADERS),
      <<Blank, Str(sA), Num(-2), Str(CE), Blank, Blank, Blank>>,
      <<Blank, Str(sA), Num(1), Str(BC), Blank, Blank, Str(sD)>>>>,
    \* a NumericYear cell that holds text
    <<StrCells(REQUIRED_HEADERS), RowA,
      <<Str(Timeline1), Str(sA), Num(1), Str(CE), Str(sX), Str(sUpperA), Blank>>,
      RowA2>> }

NoCall == [op |-> "none", arg |-> NoKey, res |-> Result(TRUE, "")]

Init ==
  /\ sheet \in InitSheets
  /\ pre = sheet
  /\ last = NoCall

InitEmpty ==
  /\ sheet = <<>>
  /\ pre = sheet
  /\ last = NoCall

NumDataRows(g) == IF getLastRow(g) < 2 THEN 0 ELSE getLastRow(g) - 1

(***************************************************************************)
(* The operations.  A call runs to completion; its result is consumed      *)
(* before the next call is made.                                           *)
(***************************************************************************)
Returned(op, arg, result) ==
  \E r \in {result} :
    /\ sheet' = r.sheet
    /\ pre' = sheet
    /\ last' = [op |-> op, arg |-> arg, res |-> r.res]

GetSheet ==
  /\ last.op = "none"
  /\ Returned("getSheet", NoKey,
              [sheet |-> getSheet(sheet), res |-> Result(TRUE, "")])

GetEventsGrouped ==
  /\ last.op = "none"
  /\ LET s == getSheet(sheet)
     IN \E seed \in Perms(Larger(1, NumDataRows(s))) :
          Returned("getEventsGrouped", NoKey,
                   [sheet |-> s, res |-> getEventsGrouped(s, seed)])

AddEvent ==
  /\ last.op = "none"
  /\ NumDataRows(sheet) < MaxRows
  /\ \E e \in AddArgs : Returned("addEvent", e, addEvent(sheet, e))

UpdateEvent ==
  /\ last.op = "none"
  /\ \E e \in UpdateArgs(getSheet(sheet)) :
       Returned("updateEvent", e, updateEvent(sheet, e))

DeleteEvent ==
  /\ last.op = "none"
  /\ \E k \in DeleteArgs(getSheet(sheet)) :
       Returned("deleteEvent", k, deleteEvent(sheet, k))

\* the four values of an event as the caller passed them to addEvent
KeyOfEvent(e) == Key(e.timelineName, e.name, e.year, e.era)

\* the caller of a successful addEvent deletes, or updates, the event by the
\* values it has just passed
DeleteAdded ==
  /\ last.op = "addEvent"
  /\ last.res.success
  /\ LET k == KeyOfEvent(last.arg)
     IN Returned("deleteEvent", k, deleteEvent(sheet, k))

UpdateAdded ==
  /\ last.op = "addEvent"
  /\ last.res.success
  /\ \E v \in NewValues :
       LET e == Update(KeyOfEvent(last.arg), v[1], v[2], v[3], v[4], v[5])
       IN Returned("updateEvent", e, updateEvent(sheet, e))

\* the caller has the result
Return ==
  /\ last.op # "none"
  /\ last' = NoCall
  /\ pre' = sheet
  /\ UNCHANGED sheet

Next ==
  \/ GetSheet
  \/ GetEventsGrouped
  \/ AddEvent
  \/ UpdateEvent
  \/ DeleteEvent
  \/ DeleteAdded
  \/ UpdateAdded
  \/ Return

Spec == Init /\ [][Next]_vars

SpecEmpty == InitEmpty /\ [][Next]_vars

(***************************************************************************)
(* What the claims are stated with.                                        *)
(***************************************************************************)
\* the rows below the header, as they lie in the grid
BodyRows(g) == IF Len(g) < 2 THEN <<>> ELSE SubSeq(g, 2, Len(g))

\* the header row is the six labels of the old layout and nothing else
IsLegacy(g) == Len(g) >= 1 /\ g[1] = StrCells(OLD_HEADERS)

\* the first seven cells of the header row are the required labels
HasRequiredHeader(g) ==
  \A i \in 1..Len(REQUIRED_HEADERS) : Cell(g, 1, i) = Str(REQUIRED_HEADERS[i])

(***************************************************************************)
(* C1: a getSheet call on a sheet whose header row is the six labels of    *)
(* the old layout, with N >= 0 data rows, leaves seven columns, the        *)
(* required header, N data rows, "Timeline 1" in the first cell of every   *)
(* data row and the former cells 1-6 of each data row in its cells 2-7.    *)
(***************************************************************************)
C1_Migration ==
  (last.op = "getSheet" /\ IsLegacy(pre)) =>
    /\ getLastColumn(sheet) = 7
    /\ sheet[1] = StrCells(REQUIRED_HEADERS)
    /\ NumDataRows(sheet) = NumDataRows(pre)
    /\ Len(sheet) = Len(pre)
    /\ \A r \in 2..Len(pre) :
         /\ sheet[r][1] = Str(Timeline1)
         /\ \A c \in 1..6 : sheet[r][c + 1] = pre[r][c]

C1_Witness ==
  /\ last.op = "getSheet"
  /\ IsLegacy(pre)
  /\ NumDataRows(pre) = 2
  /\ sheet # pre

(***************************************************************************)
(* C2: getSheet is idempotent: on the sheet a getSheet call left, a second *)
(* call changes nothing and does not migrate; a sheet that had the         *)
(* required header is left as it was.                                      *)
(***************************************************************************)
C2_Idempotent ==
  last.op = "getSheet" =>
    /\ getSheet(sheet) = sheet
    /\ ~isOld(Headers(sheet))
    /\ HasRequiredHeader(pre) => sheet = pre

C2_Witness ==
  /\ last.op = "getSheet"
  /\ isOld(Headers(pre))
  /\ NumDataRows(pre) >= 1
  /\ sheet # pre

(***************************************************************************)
(* C3: getEventsGrouped returns timelineNames as the distinct timeline     *)
(* names of the data rows in strictly ascending order, timelines[i].name = *)
(* timelineNames[i], and the events of each timeline in ascending          *)
(* numericYear order, a numericYear that is no number counting as 0 and    *)
(* events of equal numericYear staying in row order.                       *)
(***************************************************************************)
\* the numericYear of an event as the claim orders it
YearOrZero(ev) ==
  LET x == ToNumber(ev.numericYear)
  IN IF x.t = "num" THEN x.n ELSE 0

RECURSIVE InsertByYear(_, _)
InsertByYear(ev, sorted) ==
  IF sorted = <<>> THEN <<ev>>
  ELSE IF YearOrZero(Head(sorted)) > YearOrZero(ev) THEN <<ev>> \o sorted
  ELSE <<Head(sorted)>> \o InsertByYear(ev, Tail(sorted))

\* evs in ascending YearOrZero order, equal ones in the order of evs
RECURSIVE InYearOrder(_)
InYearOrder(evs) ==
  IF evs = <<>> THEN <<>>
  ELSE InsertByYear(evs[Len(evs)], InYearOrder(SubSeq(evs, 1, Len(evs) - 1)))

C3_Grouped ==
  last.op = "getEventsGrouped" =>
    LET names == last.res.timelineNames
        timelines == last.res.timelines
        data == DataRows(sheet)
        evs == [i \in 1..Len(data) |-> Decode(data[i])]
    IN /\ \A i, j \in 1..Len(names) : i < j => StrLess(names[i], names[j])
       /\ {names[i] : i \in 1..Len(names)}
            = {evs[i].timelineName.s : i \in 1..Len(evs)}
       /\ \A i \in 1..Len(data) :
            data[i][1] # Blank =>
              \E k \in 1..Len(names) : names[k] = ToStr(data[i][1])
       /\ Len(timelines) = Len(names)
       /\ \A k \in 1..Len(names) :
            /\ timelines[k].name = names[k]
            /\ timelines[k].events = InYearOrder(GroupOf(evs, names[k]))

(***************************************************************************)
(* C4: getEventsGrouped gives an event whose row has an empty timelineName *)
(* cell the timeline name "Timeline 1" and returns it in the group named   *)
(* "Timeline 1".                                                           *)
(***************************************************************************)
C4_Placeholder ==
  last.op = "getEventsGrouped" =>
    LET timelines == last.res.timelines
        data == DataRows(sheet)
    IN \A i \in 1..Len(data) :
         data[i][1] = Blank =>
           \E k \in 1..Len(timelines) :
             /\ timelines[k].name = Timeline1
             /\ \E n \in 1..Len(timelines[k].events) :
                  LET ev == timelines[k].events[n]
                  IN /\ ev.timelineName = Str(Timeline1)
                     /\ ev.name = data[i][2]
                     /\ ev.year = data[i][3]
                     /\ ev.era = data[i][4]

(***************************************************************************)
(* What the claims about the mutations are stated with.                    *)
(***************************************************************************)
\* row lies under the composite key k: string equality on the four fields
KeyMatches(row, k) ==
  /\ ToStr(row[1]) = ToStr(k.timelineName)
  /\ ToStr(row[2]) = ToStr(k.name)
  /\ ToStr(row[3]) = ToStr(k.year)
  /\ ToStr(row[4]) = ToStr(k.era)

\* m is the topmost data row of g under the key k
IsFirstMatch(g, m, k) ==
  /\ m \in 1..Len(BodyRows(g))
  /\ KeyMatches(BodyRows(g)[m], k)
  /\ \A i \in 1..(m - 1) : ~KeyMatches(BodyRows(g)[i], k)

\* the numeric year that belongs to a year and an era
SignedYear(year, era) == IF era = Str(BC) THEN -Abs(year.n) ELSE Abs(year.n)

\* the name is not empty after trimming and the year parses as an integer
ValidAdd(e) ==
  /\ e.given
  /\ e.name.t = "str" /\ Trim(e.name.s) # <<>>
  /\ ParseInt(e.year).t = "num"

OnlyYear(e) ==
  /\ e.timelineName = Undef
  /\ e.name = Undef
  /\ e.era = Undef
  /\ e.description = Undef
  /\ ParseInt(e.year).t = "num"

C7_DeleteFirst ==
  (last.op = "deleteEvent" /\ last.arg.given) =>
    \A m \in 1..Len(BodyRows(pre)) :
      IsFirstMatch(pre, m, last.arg) =>
        /\ last.res.success
        /\ NumDataRows(sheet) = NumDataRows(pre) - 1
        /\ Len(BodyRows(sheet)) = Len(BodyRows(pre)) - 1
        /\ \A i \in 1..(m - 1) : BodyRows(sheet)[i] = BodyRows(pre)[i]
        /\ \A i \in (m + 1)..Len(BodyRows(pre)) :
             BodyRows(sheet)[i - 1] = BodyRows(pre)[i]

\* the first of two rows under the same key is deleted
C7_Witness ==
  /\ last.op = "deleteEvent"
  /\ last.res.success
  /\ Len(BodyRows(pre)) = 2
  /\ IsFirstMatch(pre, 1, last.arg)
  /\ KeyMatches(BodyRows(pre)[2], last.arg)
  /\ Len(BodyRows(sheet)) = 1

(***************************************************************************)
(* C8: an addEvent, updateEvent or deleteEvent that returns success:false  *)
(* returns a {success, message} result with one of the reasons of the      *)
(* code, and leaves the sheet as it was at the call or as the schema       *)
(* repair of getSheet leaves that sheet: no row is written or deleted.     *)
(***************************************************************************)
Reasons ==
  [addEvent |-> {"No event data.", "Missing event name.",
                 "Year must be a number."},
   updateEvent |-> {"Missing original identifiers.", "No events to update.",
                    "Event not found for update.", "Year must be a number."},
   deleteEvent |-> {"No delete parameters.", "No events to delete.",
                    "Event not found."}]

C8_RejectedLeavesRows ==
  (last.op \in {"addEvent", "updateEvent", "deleteEvent"}
     /\ ~last.res.success) =>
    /\ last.res.message \in Reasons[last.op]
    /\ sheet = pre \/ sheet = getSheet(pre)
    /\ ~isOld(Headers(pre)) => DataRows(sheet) = DataRows(pre)

\* an update with a year that does not parse, on a row that its key matches,
\* is rejected
C8_Witness ==
  /\ last.op = "updateEvent"
  /\ ~last.res.success
  /\ last.res.message = "Year must be a number."
  /\ \E m \in 1..Len(BodyRows(pre)) : IsFirstMatch(pre, m, last.arg.original)
  /\ NumDataRows(sheet) = 2

(***************************************************************************)
(* C9: from an empty sheet, after any sequence of addEvent, updateEvent    *)
(* and deleteEvent calls, the name of every data row is not empty after    *)
(* trimming.                                                               *)
(***************************************************************************)
C9_NamesNotEmpty ==
  \A i \in 1..Len(DataRows(sheet)) : Trim(ToStr(DataRows(sheet)[i][2])) # <<>>

(***************************************************************************)
(* C10: from an empty sheet, after any sequence of addEvent, updateEvent   *)
(* and deleteEvent calls, every data row has an integer year, and a        *)
(* numericYear of -|year| when its era is "BC" and of |year| otherwise.    *)
(***************************************************************************)
C10_NumericYear ==
  \A i \in 1..Len(DataRows(sheet)) :
    LET row == DataRows(sheet)[i]
    IN /\ row[3].t = "num"
       /\ row[5] = Num(SignedYear(row[3], row[4]))

\* an update has given a row the era "BC" and so turned its numericYear
C10_Witness ==
  /\ last.op = "updateEvent"
  /\ last.res.success
  /\ last.arg.era = Str(BC)
  /\ \E m \in 1..Len(BodyRows(pre)) :
       /\ IsFirstMatch(pre, m, last.arg.original)
       /\ BodyRows(pre)[m][4] = Str(CE)
       /\ BodyRows(pre)[m][5] = Num(2)
       /\ BodyRows(sheet)[m][5] = Num(-2)

(***************************************************************************)
(* C11: after a successful addEvent whose input supplies timelineName,     *)
(* name without leading or trailing white space, year as an integer in     *)
(* canonical decimal form and era, a deleteEvent or updateEvent that       *)
(* follows at once with those four values as its key finds a row (it does  *)
(* not answer "Event not found." or "Event not found for update."), and    *)
(* the deleteEvent succeeds and leaves as many data rows as there were     *)
(* before the add.                                                         *)
(***************************************************************************)
\* an integer written in decimal: no sign but "-", no leading zero, no "-0"
CanonicalInt(v) ==
  \/ v.t = "num"
  \/ /\ v.t = "str"
     /\ LET neg == v.s # <<>> /\ Head(v.s) = "-"
            body == IF neg THEN Tail(v.s) ELSE v.s
        IN /\ body # <<>>
           /\ \A i \in 1..Len(body) : IsDigit(body[i])
           /\ Len(body) > 1 => body[1] # "0"
           /\ neg => body # <<"0">>

SuppliesKey(e) ==
  /\ e.given
  /\ e.timelineName.t = "str" /\ e.timelineName.s # <<>>
  /\ e.name.t = "str" /\ e.name.s # <<>> /\ ~IsSpace(Head(e.name.s))
  /\ ~IsSpace(e.name.s[Len(e.name.s)])
  /\ CanonicalInt(e.year)
  /\ e.era.t = "str" /\ e.era.s # <<>>

\* the step is a call keyed by the values of the addEvent just answered
FollowsAdd ==
  \/ last'.op = "deleteEvent" /\ last'.arg = KeyOfEvent(last.arg)
  \/ last'.op = "updateEvent" /\ last'.arg.original = KeyOfEvent(last.arg)

C11_KeyOfAdded ==
  [][(last.op = "addEvent" /\ last.res.success /\ SuppliesKey(last.arg)
        /\ FollowsAdd) =>
       /\ last'.res.message
            \notin {"Event not found.", "Event not found for update."}
       /\ last'.op = "deleteEvent" =>
            /\ last'.res.success
            /\ NumDataRows(sheet') = NumDataRows(pre)]_vars

\* the event (B, a, "-2", BC) was added as the last row, and deleted by the
\* key as passed to addEvent, the year as text
AddedEvent == Event(Str(sB), Str(sA), Str(sMinus2), Str(BC), Str(sD))

C11_Witness ==
  /\ last.op = "deleteEvent"
  /\ last.arg = KeyOfEvent(AddedEvent)
  /\ SuppliesKey(AddedEvent)
  /\ last.res.success
  /\ NumDataRows(pre) >= 2
  /\ DataRows(pre)[NumDataRows(pre)] = NewRow(AddedEvent)
  /\ NumDataRows(sheet) = NumDataRows(pre) - 1

====
